---- MODULE Spec2Model ----
(***************************************************************************)
(* The drives API of the hiking club server (routes/api/drives over the    *)
(* Drive model): the persisted Drive records, the request handlers that    *)
(* read and write them, and the leavingDate validator of create / update.  *)
(*                                                                         *)
(* Spec      every request runs from its first read to its response with   *)
(*           no other request in between (sequential requests).            *)
(* SpecComments  the same, for adding comments to and removing them from  *)
(*           a Drive that carries some.                                    *)
(* SpecRace  join and leave are split at their awaits: the read of the     *)
(*           Drive and the save() of the changed document are separate     *)
(*           steps, so requests overlap; updates and creates run between.  *)
(* SpecOverlap  the overlapping joins and leaves alone.                    *)
(* SpecRegister  registrations, whole and split at the await between the  *)
(*           lookup of the email and the save.                             *)
(* SpecDate  the leavingDate validator applied to bounded inputs under     *)
(*           every server date of a bounded calendar.                      *)
(***************************************************************************)
EXTENDS Integers, Sequences, FiniteSets, Bags, TLC

VARIABLES
    drives,     \* the drive collection: id -> document, or NoDrive
    prev,       \* the drive collection as it was before the last step
    resp,       \* the last response sent (and the request it answers)
    pending,    \* requests between their read and their save: slot -> request
    hist,       \* per run: the seeded seat count, successful joins and leaves
    now,        \* the server's current date (what new Date() returns)
    userDocs,   \* the user collection: the set of User records
    prevUsers   \* the user collection as it was before the last step

vars == <<drives, prev, resp, pending, hist, now, userDocs, prevUsers>>

----------------------------------------------------------------------------
(* Bounds of the model *)

\* seats of the seeded Drive range over 0..MaxSeats
MaxSeats == 2
\* fractions of a seat are told apart down to 1/Unit
Unit == 2
\* a document is saved at most MaxVersion times (its __v never passes it)
MaxVersion == 3
\* comments already on the seeded Drive: at most MaxComments
MaxComments == 3
\* requests that may be between their read and their save at once
MaxInFlight == 2
\* the calendar years of the date specification: BaseYear .. BaseYear + YearSpan
YearSpan == 0

\* the first year of the bounded calendar
BaseYear == 2026

----------------------------------------------------------------------------
(* The accounts: every caller is authenticated, so has a User record; a    *)
(* Profile is optional.                                                    *)

Users == {"u1", "u2", "u3", "u4"}

\* the users that have a Profile record
Profiled == {"u1", "u2", "u3"}

\* User.findById(req.user.id).select('-password')
FindUser(u) ==
    [id |-> u, name |-> <<"name", u>>, phone |-> <<"phone", u>>,
     avatar |-> <<"avatar", u>>]

\* the email a User registered with, as the tokens split('@') yields
EmailOf(local) == <<local, "club.org">>

\* the User record of an account: the fields registration stores
UserDoc(id, name, email, phone, password) ==
    [id |-> id, name |-> name, email |-> email, phone |-> phone,
     avatar |-> <<"gravatar", email>>, password |-> <<"hash", password>>]

\* the user collection the drive requests run against
SeedUsers ==
    {UserDoc(u, <<"name", u>>, EmailOf(u), <<"phone", u>>, <<"pw", u>>)
         : u \in Users}

NoProfile == [none |-> TRUE]

\* Profile.findOne({ user: req.user.id }): the profile or null
FindProfile(u) ==
    IF u \in Profiled
    THEN [user |-> u, grade |-> <<"grade", u>>, type |-> <<"type", u>>,
          exp |-> <<"exp", u>>, skills |-> <<"skills", u>>]
    ELSE NoProfile

----------------------------------------------------------------------------
(* The leavingDate validator.  The input is the request's string, kept as  *)
(* the tokens split('/') yields, each token a sequence of decimal digits.  *)

\* the limits the validator compares month and day with
MaxMonth == 12
MaxDay == 31
\* the length the validator requires of the input string
DateLen == 10
\* the number of tokens the validator requires
DateTokens == 3

RECURSIVE ParseInt(_)
\* parseInt(str) of a string of decimal digits
ParseInt(ds) ==
    IF Len(ds) = 0 THEN 0
    ELSE 10 * ParseInt(SubSeq(ds, 1, Len(ds) - 1)) + ds[Len(ds)]

RECURSIVE SumLen(_)
SumLen(toks) ==
    IF Len(toks) = 0 THEN 0 ELSE Len(Head(toks)) + SumLen(Tail(toks))

\* leavingDate.length: the tokens and the '/' between them
StrLen(toks) == SumLen(toks) + (Len(toks) - 1)

\* n as exactly w decimal digits (what a client's MM/DD/YYYY form sends)
RECURSIVE Digits(_, _)
Digits(n, w) ==
    IF w = 0 THEN <<>> ELSE Append(Digits(n \div 10, w - 1), n % 10)

\* the string MM/DD/YYYY of a month, a day and a year
FormatDate(mo, dy, yr) == <<Digits(mo, 2), Digits(dy, 2), Digits(yr, 4)>>

\* curr.getDate(), curr.getMonth(), curr.getFullYear() of the server date:
\* getMonth() counts from 0 (January is 0)
GetDate(curr) == curr.day
GetMonth(curr) == curr.month - 1
GetFullYear(curr) == curr.year

\* the .custom(leavingDate => ...) validator of create and of update:
\* "format" (Invalid Date, Check Zeroes), "past" (Please Enter a Current or
\* Future Date) or "ok" (return true)
DateValidator(toks, curr) ==
    LET date == [i \in 1..Len(toks) |-> ParseInt(toks[i])]
        d == GetDate(curr)
        m == GetMonth(curr)
        y == GetFullYear(curr)
    IN  IF Len(date) # DateTokens \/ StrLen(toks) # DateLen THEN "format"
        ELSE IF \/ (date[1] < m /\ date[3] = y)
                \/ (date[1] <= m /\ date[2] < d /\ date[3] = y)
                \/ date[3] < y
                \/ date[1] > MaxMonth
                \/ date[2] > MaxDay
                \/ date[2] <= 0
             THEN "past"
             ELSE "ok"

\* a well-formed date the validator accepts under every date of the calendar
FarDate == FormatDate(12, 31, BaseYear + YearSpan + 1)
\* a well-formed date of a year before the calendar
OldDate == FormatDate(1, 1, BaseYear - 1)
\* a date typed without its zeroes: 8 characters
ShortDate == <<Digits(1, 1), Digits(5, 1), Digits(BaseYear, 4)>>

----------------------------------------------------------------------------
(* Drive documents (models/Drive.js) and what mongoose does with them *)

\* the well-formed ids: d1 is the seeded Drive, d2 the id of the next insert
DriveIds == {"d1", "d2"}
\* the ids a request carries: the seeded Drive's (no record once it is
\* deleted) and a malformed one
ReqIds == {"d1", "bad"}
\* Drive.findById(id) rejects with a CastError of kind ObjectId otherwise
WellFormedId(id) == id \in DriveIds

NoDrive == [none |-> TRUE]

\* the paths of DriveSchema (the version key __v is v)
DrivePaths ==
    {"user", "leavingDate", "leavingTime", "resort", "name", "avatar",
     "seats", "description", "group", "comments"}
\* the paths of DriveSchema with required: true
RequiredPaths == {"leavingDate", "leavingTime", "resort", "seats", "description"}
\* the paths of an entry of DriveSchema.group
GroupPaths == {"user", "name", "avatar", "grade", "type", "skills"}

\* strict mode: a path the schema does not declare is not set
Strict(obj, paths) == [f \in (DOMAIN obj) \cap paths |-> obj[f]]

\* a Number is held in units of 1/Unit: the Number x is the integer x * Unit
Whole(k) == k * Unit
IsInteger(x) == x % Unit = 0

\* a request field: a whole number, a number with a fraction (f of Unit
\* parts, written with a decimal point), or a string that is not a number
Num(n) == [isNum |-> TRUE, n |-> Whole(n)]
Dec(n, f) == [isNum |-> TRUE, n |-> Whole(n) + f]
Str(s) == [isNum |-> FALSE, s |-> s]

\* validation before save(): every required path is set and seats casts to
\* a Number
ValidateDrive(doc) ==
    /\ RequiredPaths \subseteq DOMAIN doc
    /\ doc.seats.isNum

\* the entry create seeds the group with (lines 144-156), as stored
DriverEntry(u) ==
    LET user == FindUser(u)
        profile == FindProfile(u)
    IN  Strict([user |-> u, name |-> user.name, phone |-> user.phone,
                avatar |-> user.avatar, grade |-> profile.grade,
                type |-> profile.type, exp |-> profile.exp,
                skills |-> profile.skills], GroupPaths)

\* the entry join builds (joinFields, lines 338-350), as stored
JoinEntry(user, profile) ==
    Strict([user |-> user.id, name |-> user.name, phone |-> user.phone,
            avatar |-> user.avatar, grade |-> profile.grade,
            type |-> profile.type, exp |-> profile.exp,
            skills |-> profile.skills], GroupPaths)

\* the user ids of a group or of a comment list, in order
UsersOf(list) == [i \in 1..Len(list) |-> list[i].user]

\* list.filter(e => e.user.toString() === u).length
CountOf(list, u) == Cardinality({i \in 1..Len(list) : list[i].user = u})

\* arr.indexOf(x), counted from 1; 0 when x is no element (indexOf's -1)
IndexOf(arr, x) ==
    IF \E i \in 1..Len(arr) : arr[i] = x
    THEN CHOOSE i \in 1..Len(arr) :
             arr[i] = x /\ \A j \in 1..(i - 1) : arr[j] # x
    ELSE 0

\* list.splice(i, 1) for the index i counted from 1; for i = 0 (indexOf's
\* -1) splice(-1, 1) removes the last element
Splice(list, i) ==
    LET k == IF i = 0 THEN Len(list) ELSE i
    IN  [j \in 1..(Len(list) - 1) |-> IF j < k THEN list[j] ELSE list[j + 1]]

\* Drive.findById(id) for a well-formed id: the document or null
FindById(store, id) == store[id]

NoData == [none |-> TRUE]

\* what a handler ends with: the response and the collection it leaves
Outcome(status, msg, data, store) ==
    [status |-> status, msg |-> msg, data |-> data, store |-> store]

\* save() as it would be with no version in its filter
SaveMatchesAnyVersion(store, id, loaded) == store[id] # NoDrive

\* await drive.save() of a loaded document whose group (unshift, splice) or
\* comments (splice) array was changed: the arrays are written whole with
\* $set, so the update is filtered by the version the document was loaded
\* with and increments it; the changed seats are written with it.  TRUE
\* when a document matched (otherwise save() rejects with a VersionError).
SaveMatches(store, id, loaded) ==
    /\ store[id] # NoDrive
    /\ store[id].v = loaded.v

SaveGroup(store, id, doc) ==
    [store EXCEPT ![id] = [@ EXCEPT !.group = doc.group,
                                    !.seats = doc.seats,
                                    !.v = @ + 1]]

SaveComments(store, id, doc) ==
    [store EXCEPT ![id] = [@ EXCEPT !.comments = doc.comments,
                                    !.v = @ + 1]]

----------------------------------------------------------------------------
(* The handlers, from the loaded document to the response.  `loaded` is    *)
(* what findById returned when the handler read it, `store` the collection *)
(* when the handler writes.                                                *)

\* router.get('/:id')
GetHandler(store, id) ==
    IF ~WellFormedId(id) THEN Outcome(404, "Drive not found", NoData, store)
    ELSE IF FindById(store, id) = NoDrive
    THEN Outcome(404, "Drive not found", NoData, store)
    ELSE Outcome(200, "", FindById(store, id), store)

\* check('text').not().isEmpty() of add-comment (lines 416-418)
IsEmptyText(text) == text = ""

\* the checks and changes below as a slip in them would leave them
AlreadyJoinedNever(group, uid) == FALSE
IsFullBelowZero(drive) == drive.seats < 0
NotJoinedNever(group, uid) == FALSE
NotOwnerNever(drive, uid) == FALSE

\* join's check "user already joined drive" (lines 325-327)
AlreadyJoined(group, uid) == CountOf(group, uid) > 0

\* join's check "are there any seats" (line 332)
IsFull(drive) == drive.seats < Whole(1)

\* join's change of the loaded document (lines 352-353)
JoinChange(loaded, user, profile) ==
    [loaded EXCEPT !.group = <<JoinEntry(user, profile)>> \o @,
                   !.seats = @ - Whole(1)]

\* leave's check "user joined drive" (lines 379-382)
NotJoined(group, uid) == CountOf(group, uid) = 0

\* leave's change of the loaded document (lines 387-392)
LeaveChange(loaded, uid) ==
    LET removeIndex == IndexOf(UsersOf(loaded.group), uid)
    IN  [loaded EXCEPT !.group = Splice(@, removeIndex),
                         !.seats = @ + Whole(1)]

\* the owner check of update and delete (lines 243, 295)
NotOwner(drive, uid) == drive.user # uid

\* router.put('/join/:id') after its three reads
JoinHandler(store, loaded, u, id) ==
    LET user == FindUser(u)
        profile == FindProfile(u)
    IN  IF loaded = NoDrive THEN Outcome(404, "Drive not found", NoData, store)
        ELSE IF AlreadyJoined(loaded.group, user.id)
        THEN Outcome(400, "Drive already joined", NoData, store)
        ELSE IF IsFull(loaded)
        THEN Outcome(400, "Drive full", NoData, store)
        ELSE IF profile = NoProfile
        THEN Outcome(400, "You need a profile to join drives", NoData, store)
        ELSE LET doc == JoinChange(loaded, user, profile)
             IN  IF SaveMatches(store, id, loaded)
                 THEN Outcome(200, "", doc.group, SaveGroup(store, id, doc))
                 ELSE Outcome(500, "Server Error", NoData, store)

\* router.put('/leave/:id') after its read
LeaveHandler(store, loaded, u, id) ==
    IF loaded = NoDrive THEN Outcome(404, "Drive not found", NoData, store)
    ELSE IF NotJoined(loaded.group, u)
    THEN Outcome(400, "Drive not joined", NoData, store)
    ELSE LET doc == LeaveChange(loaded, u)
         IN  IF SaveMatches(store, id, loaded)
             THEN Outcome(200, "", doc.group, SaveGroup(store, id, doc))
             ELSE Outcome(500, "Server Error", NoData, store)

\* router.delete('/:id')
DeleteHandler(store, u, id) ==
    IF ~WellFormedId(id) THEN Outcome(400, "Drive not found", NoData, store)
    ELSE IF FindById(store, id) = NoDrive
    THEN Outcome(404, "Drive not found", NoData, store)
    ELSE IF NotOwner(FindById(store, id), u)
    THEN Outcome(401, "User not authorized", NoData, store)
    ELSE Outcome(200, "Drive removed", NoData, [store EXCEPT ![id] = NoDrive])

\* router.delete('/comment/:id/:comment_id')
RemoveCommentHandler(store, u, id, cid) ==
    IF ~WellFormedId(id) THEN Outcome(404, "Drive not found", NoData, store)
    ELSE LET drive == FindById(store, id) IN
    \* drive.comments of null throws a TypeError
    IF drive = NoDrive THEN Outcome(500, "Server Error", NoData, store)
    ELSE IF ~\E i \in 1..Len(drive.comments) : drive.comments[i].id = cid
    THEN Outcome(404, "Comment does not exist", NoData, store)
    ELSE LET comment == drive.comments[
                 CHOOSE i \in 1..Len(drive.comments) :
                     /\ drive.comments[i].id = cid
                     /\ \A j \in 1..(i - 1) : drive.comments[j].id # cid]
         IN  IF comment.user # u
             THEN Outcome(401, "User not authorized", NoData, store)
             ELSE LET removeIndex == IndexOf(UsersOf(drive.comments), u)
                      doc == [drive EXCEPT !.comments = Splice(@, removeIndex)]
                  IN  Outcome(200, "", doc.comments,
                              SaveComments(store, id, doc))

\* the models the drive routes import (lines 8-11)
Imported == {"User", "Profile", "Drive"}

\* the _id a comment pushed onto those comments gets: one not among theirs
NextCommentId(comments) ==
    LET ids == {comments[i].id : i \in 1..Len(comments)}
    IN  IF ids = {} THEN 1
        ELSE 1 + CHOOSE m \in ids : \A n \in ids : n <= m

\* the comment add-comment builds (lines 432-437)
NewComment(cid, u, text) ==
    [id |-> cid, user |-> u, text |-> text, name |-> FindUser(u).name,
     avatar |-> FindUser(u).avatar]

\* router.post('/comment/:id')
AddCommentHandler(store, u, id, text) ==
    IF IsEmptyText(text) THEN Outcome(400, "validation", NoData, store)
    \* Drive.findById of a malformed id throws a CastError
    ELSE IF ~WellFormedId(id) THEN Outcome(404, "Drive not found", NoData, store)
    \* new Post(..) of a name that is not defined throws a ReferenceError
    ELSE IF "Post" \notin Imported
    THEN Outcome(500, "Server Error", NoData, store)
    ELSE LET drive == FindById(store, id) IN
    \* drive.comments of null throws a TypeError
    IF drive = NoDrive THEN Outcome(500, "Server Error", NoData, store)
    ELSE LET newComment == NewComment(NextCommentId(drive.comments), u, text)
             doc == [drive EXCEPT !.comments = <<newComment>> \o @]
         IN  IF SaveMatches(store, id, drive)
             THEN Outcome(200, "", doc.comments, SaveComments(store, id, doc))
             ELSE Outcome(500, "Server Error", NoData, store)

----------------------------------------------------------------------------
(* Request bodies and the express-validator chains of create and update *)

\* .not().isEmpty() of a string field
IsEmpty(x) == x = ""
\* .not().isEmpty() of the seats field
IsEmptySeats(x) == ~x.isNum /\ x.s = ""
\* .isNumeric() of the seats field: digits, with or without a sign and a
\* decimal point
IsNumeric(x) == x.isNum

\* the params the checks of router.post('/') reject (lines 77-121)
CreateErrors(body, curr) ==
    {f \in {"leavingDate"} : DateValidator(body.leavingDate, curr) # "ok"}
    \cup {f \in {"leavingTime"} : IsEmpty(body.leavingTime)}
    \cup {f \in {"hike"} : IsEmpty(body.hike)}
    \cup {f \in {"seats"} : IsEmptySeats(body.seats)}
    \cup {f \in {"description"} : IsEmpty(body.description)}

\* the params the checks of router.put('/:id') reject (lines 180-225)
UpdateErrors(body, curr) ==
    {f \in {"leavingDate"} : DateValidator(body.leavingDate, curr) # "ok"}
    \cup {f \in {"leavingTime"} : IsEmpty(body.leavingTime)}
    \cup {f \in {"hike"} : IsEmpty(body.hike)}
    \cup {f \in {"seats"} : IsEmptySeats(body.seats) \/ ~IsNumeric(body.seats)}
    \cup {f \in {"description"} : IsEmpty(body.description)}

\* router.post('/'): the handler after the checks
CreateHandler(store, u, body, curr, newId) ==
    IF CreateErrors(body, curr) # {}
    THEN Outcome(400, "validation", NoData, store)
    ELSE LET user == FindUser(u)
             profile == FindProfile(u)
         IN  \* profile.grade of null throws a TypeError
             IF profile = NoProfile
             THEN Outcome(500, "Server Error", NoData, store)
             ELSE LET newDrive ==
                          Strict([user |-> u,
                                  name |-> user.name,
                                  avatar |-> user.avatar,
                                  leavingDate |-> body.leavingDate,
                                  leavingTime |-> body.leavingTime,
                                  hike |-> body.hike,
                                  seats |-> body.seats,
                                  description |-> body.description,
                                  group |-> <<DriverEntry(u)>>,
                                  comments |-> <<>>], DrivePaths)
                  IN  \* newDrive.save() validates, then inserts with __v 0
                      IF ~ValidateDrive(newDrive)
                      THEN Outcome(500, "Server Error", NoData, store)
                      ELSE LET drive == [f \in DOMAIN newDrive \cup {"v", "id"} |->
                                            IF f = "v" THEN 0
                                            ELSE IF f = "id" THEN newId
                                            ELSE IF f = "seats" THEN newDrive.seats.n
                                            ELSE newDrive[f]]
                           IN  Outcome(200, "", drive,
                                       [store EXCEPT ![newId] = drive])

\* router.put('/:id'): the handler after the checks
UpdateHandler(store, u, id, body, curr) ==
    IF UpdateErrors(body, curr) # {}
    THEN Outcome(400, "validation", NoData, store)
    ELSE IF ~WellFormedId(id)
    THEN Outcome(400, "Drive not found", NoData, store)
    ELSE LET user == FindUser(u)
             drive == FindById(store, id)
         IN  IF drive = NoDrive
             THEN Outcome(404, "Drive not found", NoData, store)
             ELSE IF NotOwner(drive, u)
             THEN Outcome(401, "User not Authorized", NoData, store)
             ELSE IF body.seats.n < 0
             THEN Outcome(400, "Enter positive number of seats", NoData, store)
             ELSE \* findOneAndUpdate $set: hike is no path of the schema
                  LET driveFields ==
                          Strict([user |-> u,
                                  avatar |-> user.avatar,
                                  leavingDate |-> body.leavingDate,
                                  leavingTime |-> body.leavingTime,
                                  hike |-> body.hike,
                                  seats |-> body.seats.n,
                                  description |-> body.description], DrivePaths)
                      updated == [f \in DOMAIN drive |->
                                     IF f \in DOMAIN driveFields
                                     THEN driveFields[f] ELSE drive[f]]
                  IN  Outcome(200, "", updated, [store EXCEPT ![id] = updated])

----------------------------------------------------------------------------
(* The initial collection.  The collection outlives the server: it starts  *)
(* with one Drive stored through the Drive model, as create leaves one     *)
(* (the owner its only group entry, __v 0).                                *)

\* the users that wrote the comments of the seeded Drive
CommentAuthors == {"u1", "u2"}

\* a stored comment; its _id is a number here
Comment(cid, u) ==
    [id |-> cid, user |-> u, text |-> "hi", name |-> FindUser(u).name,
     avatar |-> FindUser(u).avatar]

\* the comment lists of at most MaxComments comments by the authors
SeedComments ==
    UNION {{[i \in 1..n |-> Comment(i, a[i])] : a \in [1..n -> CommentAuthors]}
           : n \in 0..MaxComments}

\* the comment ids a request may name: the seeded ones and one more
ReqCommentIds == 1..(MaxComments + 1)

SeedDrive(owner, seats, comments) ==
    [id |-> "d1", user |-> owner, name |-> FindUser(owner).name,
     avatar |-> FindUser(owner).avatar, leavingDate |-> FarDate,
     leavingTime |-> "8am", resort |-> "Rainier", seats |-> Whole(seats),
     description |-> "carpool", group |-> <<DriverEntry(owner)>>,
     comments |-> comments, v |-> 0]

\* the server date of Spec, SpecRace and SpecComments
Today == [month |-> 11, day |-> 6, year |-> BaseYear]

\* the request bodies of create and update: a valid one, and bodies with
\* one field wrong or with a fraction of a seat
Bodies ==
    LET ok == [leavingDate |-> FarDate, leavingTime |-> "9am",
               hike |-> "Si", seats |-> Num(1), description |-> "ride"]
    IN  {ok,
         [ok EXCEPT !.seats = Num(-1)],
         [ok EXCEPT !.seats = Dec(0, 1)],
         [ok EXCEPT !.leavingDate = OldDate]}

\* the bodies of the updates that run between overlapping requests
RaceBodies ==
    {b \in Bodies : b.seats = Num(1)}

NoResp ==
    [op |-> "none", caller |-> "", id |-> "", arg |-> NoData, status |-> 0,
     msg |-> "", data |-> NoData, loaded |-> NoDrive]

\* the history of a run that starts with a Drive of that many seats
NoHist(seats) ==
    [S |-> seats, N |-> 0, M |-> 0, touched |-> FALSE, driverOut |-> FALSE]

InitWith(seats, comments) ==
    /\ drives = [i \in DriveIds |->
                    IF i = "d1" THEN SeedDrive("u1", seats, comments)
                    ELSE NoDrive]
    /\ hist = NoHist(seats)
    /\ prev = drives
    /\ resp = NoResp
    /\ pending = EmptyBag
    /\ now = Today
    /\ userDocs = SeedUsers
    /\ prevUsers = userDocs

Init == \E seats \in 0..MaxSeats : InitWith(seats, <<>>)

----------------------------------------------------------------------------
(* The requests *)

\* the run's history after a response: the joins and leaves of the seeded
\* Drive answered 200 are counted, those of its driver noted; an update or
\* a delete answered 200 ends the count
Record(op, u, id, status) ==
    IF id # "d1" \/ status # 200 THEN hist
    ELSE IF op = "join"
    THEN [hist EXCEPT !.N = @ + 1,
                      !.driverOut = IF u = "u1" THEN FALSE ELSE @]
    ELSE IF op = "leave"
    THEN [hist EXCEPT !.M = @ + 1,
                      !.driverOut = IF u = "u1" THEN TRUE ELSE @]
    ELSE IF op \in {"update", "delete"} THEN [hist EXCEPT !.touched = TRUE]
    ELSE hist

\* res.status(..).json(..) of a handler's outcome; loaded is the document
\* the handler had read
Respond(op, u, id, arg, loaded, out) ==
    /\ resp' = [op |-> op, caller |-> u, id |-> id, arg |-> arg,
                status |-> out.status, msg |-> out.msg, data |-> out.data,
                loaded |-> loaded]
    /\ drives' = out.store
    /\ prev' = drives
    /\ hist' = Record(op, u, id, out.status)

\* findById as the handler's first read; null too for an id that throws
Load(id) == IF WellFormedId(id) THEN FindById(drives, id) ELSE NoDrive

\* the model stops saving a document at version MaxVersion
CanSave(id) ==
    WellFormedId(id) /\ drives[id] # NoDrive => drives[id].v < MaxVersion

\* join, from the document read to the response
JoinRequest(loaded, u, id) ==
    IF WellFormedId(id) THEN JoinHandler(drives, loaded, u, id)
    ELSE Outcome(400, "Drive not found", NoData, drives)

\* leave, from the document read to the response
LeaveRequest(loaded, u, id) ==
    IF WellFormedId(id) THEN LeaveHandler(drives, loaded, u, id)
    ELSE Outcome(400, "Drive not found", NoData, drives)

GetById(u, id) ==
    /\ Respond("get", u, id, NoData, Load(id), GetHandler(drives, id))
    /\ UNCHANGED <<pending, now, userDocs, prevUsers>>

Create(u, body) ==
    /\ \E newId \in DriveIds :
           /\ drives[newId] = NoDrive
           /\ Respond("create", u, newId, body, NoDrive,
                      CreateHandler(drives, u, body, now, newId))
    /\ UNCHANGED <<pending, now, userDocs, prevUsers>>

Update(u, id, body) ==
    /\ Respond("update", u, id, body, Load(id),
               UpdateHandler(drives, u, id, body, now))
    /\ UNCHANGED <<pending, now, userDocs, prevUsers>>

Delete(u, id) ==
    /\ Respond("delete", u, id, NoData, Load(id), DeleteHandler(drives, u, id))
    /\ UNCHANGED <<pending, now, userDocs, prevUsers>>

\* a join whose read and save no other request separates
Join(u, id) ==
    /\ CanSave(id)
    /\ Respond("join", u, id, NoData, Load(id), JoinRequest(Load(id), u, id))
    /\ UNCHANGED <<pending, now, userDocs, prevUsers>>

\* a leave whose read and save no other request separates
Leave(u, id) ==
    /\ CanSave(id)
    /\ Respond("leave", u, id, NoData, Load(id), LeaveRequest(Load(id), u, id))
    /\ UNCHANGED <<pending, now, userDocs, prevUsers>>

RemoveComment(u, id, cid) ==
    /\ CanSave(id)
    /\ Respond("removeComment", u, id, cid, Load(id),
               RemoveCommentHandler(drives, u, id, cid))
    /\ UNCHANGED <<pending, now, userDocs, prevUsers>>

\* the texts of the add-comment requests
Texts == {"", "nice"}

AddComment(u, id, text) ==
    /\ CanSave(id)
    /\ Respond("addComment", u, id, text, Load(id),
               AddCommentHandler(drives, u, id, text))
    /\ UNCHANGED <<pending, now, userDocs, prevUsers>>

Next ==
    \/ \E u \in Users, id \in ReqIds : GetById(u, id)
    \/ \E u \in Users, body \in Bodies : Create(u, body)
    \/ \E u \in Users, id \in ReqIds, body \in Bodies : Update(u, id, body)
    \/ \E u \in Users, id \in ReqIds : Delete(u, id)
    \/ \E u \in Users, id \in ReqIds : Join(u, id)
    \/ \E u \in Users, id \in ReqIds : Leave(u, id)

Spec == Init /\ [][Next]_vars

----------------------------------------------------------------------------
(* Comments: the seeded Drive carries comments, and requests remove them *)

InitComments == \E comments \in SeedComments : InitWith(1, comments)

NextComments ==
    \/ \E u \in Users, id \in ReqIds, cid \in ReqCommentIds :
           RemoveComment(u, id, cid)
    \/ \E u \in Users, id \in ReqIds, text \in Texts : AddComment(u, id, text)
    \/ \E u \in Users, id \in ReqIds : GetById(u, id)

SpecComments == InitComments /\ [][NextComments]_vars

----------------------------------------------------------------------------
(* Overlapping requests: join and leave await between reading the Drive    *)
(* and saving it, so another request may run in between.  pending is the   *)
(* bag of requests that have read and not yet saved.                       *)

PendingCount == BagCardinality(pending)

\* the callers of the overlapping joins and leaves
RaceUsers == {"u2", "u3"}
\* the caller of the updates and creates between them: the seeded Drive's
\* owner
RaceOwner == "u1"

\* the reads of join / leave (findById and, for join, the user and profile)
Begin(op, u, id) ==
    /\ PendingCount < MaxInFlight
    /\ WellFormedId(id)
    /\ pending' = pending (+) SetToBag({[op |-> op, caller |-> u, id |-> id,
                                         doc |-> FindById(drives, id)]})
    /\ UNCHANGED <<drives, prev, resp, hist, now, userDocs, prevUsers>>

\* the rest of the handler: its checks on the document it had read, the
\* change, save() and the response
Finish(r) ==
    /\ BagIn(r, pending)
    /\ CanSave(r.id)
    /\ resp' = LET out == IF r.op = "join"
                          THEN JoinRequest(r.doc, r.caller, r.id)
                          ELSE LeaveRequest(r.doc, r.caller, r.id)
               IN  [op |-> r.op, caller |-> r.caller, id |-> r.id,
                    arg |-> NoData, status |-> out.status, msg |-> out.msg,
                    data |-> out.data, loaded |-> r.doc]
    /\ drives' = (IF r.op = "join"
                  THEN JoinRequest(r.doc, r.caller, r.id)
                  ELSE LeaveRequest(r.doc, r.caller, r.id)).store
    /\ prev' = drives
    /\ pending' = pending (-) SetToBag({r})
    /\ UNCHANGED <<hist, now, userDocs, prevUsers>>

NextRace ==
    \/ \E op \in {"join", "leave"}, u \in RaceUsers, id \in ReqIds :
           Begin(op, u, id)
    \/ \E r \in BagToSet(pending) : Finish(r)
    \/ \E body \in RaceBodies : Update(RaceOwner, "d1", body)
    \/ \E body \in RaceBodies : Create(RaceOwner, body)

SpecRace == Init /\ [][NextRace]_vars

\* the overlapping joins and leaves alone
NextOverlap ==
    \/ \E op \in {"join", "leave"}, u \in RaceUsers, id \in ReqIds :
           Begin(op, u, id)
    \/ \E r \in BagToSet(pending) : Finish(r)

SpecOverlap == Init /\ [][NextOverlap]_vars

----------------------------------------------------------------------------
(* Registration.  The handler awaits between its lookup of the email and   *)
(* its save, so registrations overlap like joins do.                       *)

NoUser == [none |-> TRUE]

\* check('email').isEmail(): a local part and a domain around one '@'
IsEmail(email) == Len(email) = 2 /\ email[1] # "" /\ email[2] # ""

\* check('password').isLength({ min: 6 })
MinPassword == 6
IsLongEnough(password) == Len(password) >= MinPassword

\* the params the checks of router.post('/') of users reject (lines 25-38)
RegisterErrors(body) ==
    {f \in {"name"} : body.name = ""}
    \cup {f \in {"email"} : ~IsEmail(body.email)}
    \cup {f \in {"phone"} : body.phone.text = "" \/ ~body.phone.mobile}
    \cup {f \in {"password"} : ~IsLongEnough(body.password)}

\* User.findOne({ email }): a record with that email, or null
FindOneByEmail(store, email) ==
    IF \E r \in store : r.email = email
    THEN CHOOSE r \in store : r.email = email
    ELSE NoUser

\* the email path of the User schema is unique: an insert of a second
\* record with an email of the collection is rejected
InsertAllowed(store, doc) == ~\E r \in store : r.email = doc.email

\* the _id of a new User: one no record of the collection has
NewUserId(store) ==
    CHOOSE id \in {"r1", "r2", "r3", "r4"} : \A r \in store : r.id # id

\* the lookup's check as a slip would leave it
UserExistsNever(found) == FALSE

\* `if (user)` after the lookup (line 52)
UserExists(found) == found # NoUser

\* the handler from its lookup's result to the response (lines 40-102)
RegisterHandler(store, found, body) ==
    IF RegisterErrors(body) # {}
    THEN [status |-> 400, msg |-> "validation", data |-> NoData, store |-> store]
    ELSE IF UserExists(found)
    THEN [status |-> 400, msg |-> "User already exists", data |-> NoData,
          store |-> store]
    ELSE LET user == UserDoc(NewUserId(store), body.name, body.email,
                             body.phone.text, body.password)
         IN  \* user.save() rejects; the catch answers
             IF ~InsertAllowed(store, user)
             THEN [status |-> 500, msg |-> "Server error", data |-> NoData,
                   store |-> store]
             ELSE [status |-> 200, msg |-> "", data |-> <<"token", user.id>>,
                   store |-> store \cup {user}]

\* the emails of the registration requests: one of a registered user, new
\* ones, and one with no '@'
RegisterEmails ==
    {EmailOf("u1"), EmailOf("n1"), EmailOf("n2"), <<"nobody">>}

\* the bodies of the registration requests
RegisterBodies ==
    {[name |-> "Kim", email |-> e, phone |-> [text |-> "2065550100",
                                               mobile |-> TRUE],
      password |-> pw] :
         e \in RegisterEmails,
         pw \in {<<"s", "e", "c", "r", "e", "t">>, <<"p", "w">>}}

RespondRegister(body, found, out) ==
    /\ resp' = [op |-> "register", caller |-> "", id |-> "", arg |-> body,
                status |-> out.status, msg |-> out.msg, data |-> out.data,
                loaded |-> found]
    /\ userDocs' = out.store
    /\ prevUsers' = userDocs

\* a registration whose lookup and save no other request separates
Register(body) ==
    /\ RespondRegister(body, FindOneByEmail(userDocs, body.email),
                       RegisterHandler(userDocs,
                                       FindOneByEmail(userDocs, body.email),
                                       body))
    /\ UNCHANGED <<drives, prev, hist, pending, now>>

\* the checks and the lookup of a registration that then awaits
BeginRegister(body) ==
    /\ PendingCount < MaxInFlight
    /\ RegisterErrors(body) = {}
    /\ pending' = pending (+)
           SetToBag({[op |-> "register", body |-> body,
                      doc |-> FindOneByEmail(userDocs, body.email)]})
    /\ UNCHANGED <<drives, prev, resp, hist, now, userDocs, prevUsers>>

\* the rest of the handler: the check of what the lookup found, save() and
\* the response
FinishRegister(r) ==
    /\ BagIn(r, pending)
    /\ RespondRegister(r.body, r.doc, RegisterHandler(userDocs, r.doc, r.body))
    /\ pending' = pending (-) SetToBag({r})
    /\ UNCHANGED <<drives, prev, hist, now>>

NextRegister ==
    \/ \E body \in RegisterBodies : Register(body)
    \/ \E body \in RegisterBodies : BeginRegister(body)
    \/ \E r \in BagToSet(pending) : FinishRegister(r)

SpecRegister == Init /\ [][NextRegister]_vars

----------------------------------------------------------------------------
(* The date validator on its own: every server date of the calendar, every *)
(* input of DateInputs                                                     *)

Calendar ==
    [month : 1..MaxMonth, day : 1..MaxDay, year : BaseYear..(BaseYear + YearSpan)]

\* the inputs under a server date: the strings MM/DD/YYYY of the months,
\* days and years next to it, of month 13 and of days 0 and 32, and a
\* string typed without zeroes
DateInputs(curr) ==
    {FormatDate(mo, dy, yr) :
         mo \in {curr.month - 1, curr.month, curr.month + 1, MaxMonth + 1}
                 \cap (1..(MaxMonth + 1)),
         dy \in {0, curr.day - 1, curr.day, curr.day + 1, MaxDay + 1}
                 \cap (0..(MaxDay + 1)),
         yr \in (curr.year - 1)..(curr.year + 1)}
    \cup {ShortDate}

InitDate ==
    /\ now \in Calendar
    /\ drives = [i \in DriveIds |-> NoDrive]
    /\ prev = drives
    /\ resp = NoResp
    /\ pending = EmptyBag
    /\ hist = NoHist(0)
    /\ userDocs = SeedUsers
    /\ prevUsers = userDocs

\* the validator run on an input; the response keeps the input and the verdict
ValidateDate(toks) ==
    /\ resp = NoResp
    /\ resp' = [NoResp EXCEPT !.op = "validate", !.arg = toks,
                              !.msg = DateValidator(toks, now)]
    /\ UNCHANGED <<drives, prev, pending, hist, now, userDocs, prevUsers>>

NextDate ==
    \E toks \in DateInputs(now) : ValidateDate(toks)

SpecDate == InitDate /\ [][NextDate]_vars

----------------------------------------------------------------------------
(* Properties *)

\* the Drive the last request named was found by its handler
Found == resp.loaded # NoDrive

HasEntry(group, u) == \E i \in 1..Len(group) : group[i].user = u

\* C1, as stated: with no update or delete since the Drive was stored with
\* S seats and only its driver in the group, after N joins and M leaves
\* answered 200 (N, M <= S) seats is S - N + M, the group has 1 + N - M
\* entries and the driver's entry is in it.
C1_DriverAlwaysPresent ==
    (~hist.touched /\ hist.N <= hist.S /\ hist.M <= hist.S) =>
        LET d == drives["d1"]
        IN  /\ d.seats = Whole(hist.S - hist.N + hist.M)
            /\ Len(d.group) = 1 + hist.N - hist.M
            /\ \E i \in 1..Len(d.group) : d.group[i] = DriverEntry(d.user)

\* what does hold of those joins and leaves: seats is S - N + M and the
\* group has 1 + N - M entries; the driver's entry is in the group exactly
\* when the driver's last join or leave answered 200 was not a leave.
SeatsAndGroupCount ==
    (~hist.touched /\ hist.N <= hist.S /\ hist.M <= hist.S) =>
        LET d == drives["d1"]
        IN  /\ d.seats = Whole(hist.S - hist.N + hist.M)
            /\ Len(d.group) = 1 + hist.N - hist.M
            /\ (\E i \in 1..Len(d.group) : d.group[i] = DriverEntry(d.user))
                   <=> ~hist.driverOut

\* C2, as stated: a join of a Drive with seats 0 answers 400 'Drive full'
\* and changes nothing, whoever the caller is.
C2_AlwaysDriveFull ==
    (resp.op = "join" /\ Found /\ resp.loaded.seats = 0) =>
        /\ resp.status = 400
        /\ resp.msg = "Drive full"
        /\ drives = prev

\* C2, amended: a join of a Drive with seats 0 answers 400 and changes
\* nothing; the message is 'Drive full' for a caller not in the group (with
\* or without a Profile) and 'Drive already joined' for a caller in it.
C2_FullUnlessJoined ==
    (resp.op = "join" /\ Found /\ resp.loaded.seats = 0) =>
        /\ resp.status = 400
        /\ resp.msg = IF HasEntry(resp.loaded.group, resp.caller)
                      THEN "Drive already joined" ELSE "Drive full"
        /\ drives = prev

\* a caller with no Profile was told the Drive is full
C2_Witness ==
    /\ resp.op = "join" /\ Found /\ resp.loaded.seats = 0
    /\ resp.caller \notin Profiled
    /\ resp.msg = "Drive full"

\* C3: a Drive's group never holds two entries of one user, also when
\* requests overlap; a join by a user who is in the group the handler read
\* answers 400 'Drive already joined' and changes nothing.
C3_OneEntryPerUser ==
    /\ \A id \in DriveIds : drives[id] # NoDrive =>
           \A u \in Users : CountOf(drives[id].group, u) <= 1
    /\ (resp.op = "join" /\ Found /\ HasEntry(resp.loaded.group, resp.caller)) =>
           /\ resp.status = 400
           /\ resp.msg = "Drive already joined"
           /\ drives = prev

\* two joins of one user overlapped: the second read the Drive before the
\* first was saved, and the group holds the user once
C3_Witness ==
    /\ resp.op = "join" /\ Found
    /\ ~HasEntry(resp.loaded.group, resp.caller)
    /\ drives["d1"] # NoDrive
    /\ HasEntry(prev["d1"].group, resp.caller)
    /\ CountOf(drives["d1"].group, resp.caller) = 1

\* C4: a leave by a caller who is not in the Drive's group answers 400
\* 'Drive not joined' and changes nothing.
C4_LeaveNotJoined ==
    (resp.op = "leave" /\ Found /\ ~HasEntry(resp.loaded.group, resp.caller)) =>
        /\ resp.status = 400
        /\ resp.msg = "Drive not joined"
        /\ drives = prev

\* a user who was in the group and left asks to leave again
C4_Witness ==
    /\ resp.op = "leave" /\ Found
    /\ ~HasEntry(resp.loaded.group, resp.caller)
    /\ hist.M >= 1
    /\ resp.status = 400

\* C5, as stated: an update (whatever its body) and a delete by a caller who
\* is not the owner answer 401 and leave the record as it was.
C5_NonOwnerAlways401 ==
    (resp.op \in {"update", "delete"} /\ Found /\ resp.loaded.user # resp.caller) =>
        /\ resp.status = 401
        /\ drives = prev
        /\ drives[resp.id] # NoDrive

\* C5, amended: a delete, and an update whose body passes the checks, by a
\* caller who is not the owner answer 401; an update whose body fails the
\* checks answers 400 before the owner is looked at; the record stays as it
\* was in each case.
C5_NonOwnerRejected ==
    (resp.op \in {"update", "delete"} /\ Found /\ resp.loaded.user # resp.caller) =>
        /\ resp.status = IF /\ resp.op = "update"
                            /\ UpdateErrors(resp.arg, now) # {}
                         THEN 400 ELSE 401
        /\ drives = prev
        /\ drives[resp.id] # NoDrive

\* an update by another user, with seats below 0 in a body that passes the
\* checks, was answered 401
C5_Witness ==
    /\ resp.op = "update" /\ Found /\ resp.loaded.user # resp.caller
    /\ resp.arg.seats = Num(-1)
    /\ resp.status = 401

\* C6: a remove-comment request for a comment of the Drive answers 401 and
\* changes nothing when the caller did not write it; when the caller wrote
\* it, the comments become the list without the comment of that id, the
\* others in their order.
C6_RemovesTargeted ==
    (/\ resp.op = "removeComment" /\ Found
     /\ \E i \in 1..Len(resp.loaded.comments) :
            resp.loaded.comments[i].id = resp.arg) =>
        LET cs == resp.loaded.comments
            k == CHOOSE i \in 1..Len(cs) : cs[i].id = resp.arg
        IN  IF cs[k].user # resp.caller
            THEN resp.status = 401 /\ drives = prev
            ELSE /\ resp.status = 200
                 /\ drives[resp.id].comments =
                        [j \in 1..(Len(cs) - 1) |->
                            IF j < k THEN cs[j] ELSE cs[j + 1]]

\* C7: an input MM/DD/YYYY of the server's month and year is accepted
\* exactly when its day is not before the server's day.
C7_SameMonthAccepted ==
    (/\ resp.op = "validate"
     /\ Len(resp.arg) = DateTokens /\ StrLen(resp.arg) = DateLen
     /\ ParseInt(resp.arg[1]) = now.month
     /\ ParseInt(resp.arg[3]) = now.year
     /\ ParseInt(resp.arg[2]) \in 1..MaxDay) =>
        (resp.msg = "ok" <=> ParseInt(resp.arg[2]) >= now.day)

\* the last response answers a join that read the Drive before another
\* user's join was saved, and that passes join's own checks
RacedJoin ==
    /\ resp.op = "join" /\ Found
    /\ prev[resp.id] # NoDrive
    /\ ~HasEntry(resp.loaded.group, resp.caller)
    /\ resp.loaded.seats >= Whole(1)
    /\ resp.caller \in Profiled
    /\ \E other \in Users \ {resp.caller} :
           /\ HasEntry(prev[resp.id].group, other)
           /\ ~HasEntry(resp.loaded.group, other)

\* C8, as stated: of two overlapping joins by different users the later save
\* also answers 200 and writes what it read with its own entry and seat, so
\* the first join's entry is lost.
C8_LostUpdate ==
    RacedJoin =>
        /\ resp.status = 200
        /\ drives[resp.id].group =
               <<JoinEntry(FindUser(resp.caller), FindProfile(resp.caller))>>
                   \o resp.loaded.group
        /\ drives[resp.id].seats = resp.loaded.seats - Whole(1)

\* C8, amended: save() filters on the version the Drive was read with, so of
\* two overlapping joins by different users the later save matches nothing:
\* its request answers 500 and the Drive keeps the first join's entry and
\* seat; and a join answered 200 puts its entry in front of the group as it
\* was stored, dropping none.
C8_LaterSaveRefused ==
    /\ RacedJoin => (resp.status = 500 /\ drives = prev)
    /\ (resp.op = "join" /\ resp.status = 200) =>
           /\ resp.loaded.v = prev[resp.id].v
           /\ drives[resp.id].group =
                  <<JoinEntry(FindUser(resp.caller), FindProfile(resp.caller))>>
                      \o prev[resp.id].group

\* two users' joins overlapped and the later one was answered 500
C8_Witness ==
    /\ RacedJoin
    /\ resp.status = 500
    /\ HasEntry(drives[resp.id].group, "u2") # HasEntry(drives[resp.id].group, "u3")

\* C9: a create by a caller with a Profile, with a body that passes the
\* checks, answers 200 and stores a Drive that get-by-id returns with the
\* leavingTime, destination, seats and description of the body, the caller
\* as owner and the caller's entry as its group.
C9_CreateRoundTrip ==
    (/\ resp.op = "create"
     /\ resp.caller \in Profiled
     /\ CreateErrors(resp.arg, now) = {}
     /\ resp.arg.seats.isNum) =>
        /\ resp.status = 200
        /\ GetHandler(drives, resp.id).status = 200
        /\ LET got == GetHandler(drives, resp.id).data
           IN  /\ got.leavingTime = resp.arg.leavingTime
               /\ got.resort = resp.arg.hike
               /\ got.seats = resp.arg.seats.n
               /\ got.description = resp.arg.description
               /\ got.user = resp.caller
               /\ got.group = <<DriverEntry(resp.caller)>>

\* C10: a get, update, delete, join or leave whose id is malformed or names
\* no record answers 404 and changes nothing.
C10_UnresolvedIs404 ==
    (resp.op \in {"get", "update", "delete", "join", "leave"} /\ ~Found) =>
        /\ resp.status = 404
        /\ drives = prev

\* C11: an add-comment request with a non-empty text for an existing Drive
\* answers 200, and the Drive's stored comments become the new comment (the
\* text, the caller's id, name and avatar) followed by the comments it had,
\* in their order; the response is that list.
C11_AddCommentPrepends ==
    (resp.op = "addComment" /\ Found /\ resp.arg # "") =>
        /\ resp.status = 200
        /\ LET cs == drives[resp.id].comments
           IN  /\ Len(cs) = Len(resp.loaded.comments) + 1
               /\ cs[1].text = resp.arg
               /\ cs[1].user = resp.caller
               /\ cs[1].name = FindUser(resp.caller).name
               /\ cs[1].avatar = FindUser(resp.caller).avatar
               /\ Tail(cs) = resp.loaded.comments
               /\ resp.data = cs

\* C12: after any creates, updates, joins and leaves the seats of every
\* stored Drive are a whole number that is not below 0.
C12_SeatsNonNegativeInteger ==
    \A id \in DriveIds : drives[id] # NoDrive =>
        /\ drives[id].seats >= 0
        /\ IsInteger(drives[id].seats)

\* what does hold of them: the seats of a stored Drive are never below 0
SeatsNonNegative ==
    \A id \in DriveIds : drives[id] # NoDrive => drives[id].seats >= 0

====
